---- MODULE Spec2Model ----
(***************************************************************************)
(* osbs-box.py: a command-line script that drives docker, docker-compose   *)
(* and oc.  The model is the script as a sequential program: one run of    *)
(* the script executes one subcommand handler; every external command is   *)
(* one step whose exit status and output are chosen by the environment.    *)
(*                                                                         *)
(* Text is a sequence of tokens (strings); a command is its argv list.     *)
(***************************************************************************)
EXTENDS Integers, Sequences, FiniteSets, TLC

(***************************************************************************)
(* Module-level constants of the script.                                   *)
(***************************************************************************)
BASEIMAGE == "osbs-box"
DIRECTORIES == <<"base", "client", "koji-db", "hub", "koji-builder", "shared-data">>
SERVICES == <<"shared-data", "koji-db", "koji-hub", "koji-builder", "koji-client", "skopeo-lite">>
LOCAL_REGISTRY == "172.17.0.1:5000"
AUTO_PULL_IMAGES == << <<"registry.fedoraproject.org/fedora:latest", "fedora:latest">> >>
\* basename of the script's directory with '-' removed (checkout "osbs-box")
dir_path == "osbsbox"

\* a variant with one attempt too many
ContainerAttempts_OneMore == 10 + 1

\* a variant with one status invocation too many
OpenshiftAttempts_OneMore == 90 + 1

\* range(0, 10) of the state-flag poller, range(90) of the cluster poller
ContainerAttempts == 10
OpenshiftAttempts == 90

(***************************************************************************)
(* Bounds of the model.                                                    *)
(***************************************************************************)
\* lines the log-streaming process emits at most during one poll
MaxLines == 2

(***************************************************************************)
(* Text helpers (Python str operations on token sequences).                *)
(***************************************************************************)
NL == "\n"

\* needle in hay
IsSubstr(needle, hay) ==
    \E i \in 0..(Len(hay) - Len(needle)) :
        SubSeq(hay, i + 1, i + Len(needle)) = needle

RECURSIVE LStrip(_)
LStrip(t) == IF t # <<>> /\ Head(t) = NL THEN LStrip(Tail(t)) ELSE t

RECURSIVE RStrip(_)
RStrip(t) ==
    IF t # <<>> /\ t[Len(t)] = NL THEN RStrip(SubSeq(t, 1, Len(t) - 1)) ELSE t

\* str.strip()
Strip(t) == LStrip(RStrip(t))

\* the accumulation  output += decoded_line + '\n'  over all lines read
RECURSIVE JoinLines(_)
JoinLines(lines) ==
    IF lines = <<>> THEN <<>>
    ELSE Head(lines) \o <<NL>> \o JoinLines(Tail(lines))

None == [type |-> "None", args |-> <<>>]

\* a local variable that was not assigned yet
Unbound == <<"<unbound>">>

(***************************************************************************)
(* State.                                                                  *)
(***************************************************************************)
VARIABLES
    pc,                    \* position of the running script
    func,                  \* parsed.func: the subcommand handler
    args,                  \* parsed arguments
    ssl_exists,            \* os.path.exists('ssl')
    config,                \* contents of master-config.yaml
    wrote,                 \* the config file was opened for writing in this run
    calls,                 \* commands the handlers issued through _run, in order
    polls,                 \* readiness-poller calls of this run, in order
    polled,                \* invocations and sleeps of the latest poller call
    stdout,                \* what the script printed
    exc,                   \* the exception that ended the run, or None
    idx,                   \* index of a for loop over DIRECTORIES / SERVICES
    pollIdx,               \* which readiness poll of up() is running
    openshift_ip,          \* os_up: match.group(1)
    changed,               \* os_up: result of _update_origin_config()
    attempts,              \* loop variable of a bounded poller
    container_is_up,       \* _wait_until_container_is_up
    container,             \* poller argument
    str_to_find,           \* _wait_until_string_is_in_logs argument
    container_logs,        \* _wait_until_string_is_in_logs
    container_initialized, \* _wait_until_string_is_in_logs
    line,                  \* _wait_until_string_is_in_logs: what readline() returned
    proc,                  \* the "docker logs -f" child: state and exit status
    pipe,                  \* lines the child wrote and the script has not read
    emitted                \* number of lines the child wrote

handlerVars == <<idx, pollIdx, openshift_ip, changed>>
pollerVars == <<attempts, container_is_up, container, str_to_find,
                container_logs, container_initialized, line>>
streamVars == <<proc, pipe, emitted>>
pollLog == <<polls, polled>>
vars == <<pc, func, args, ssl_exists, config, wrote, calls, stdout, exc,
          handlerVars, pollerVars, streamVars, pollLog>>

(***************************************************************************)
(* External commands.  The environment answers every command with an exit  *)
(* status and the lines it wrote to stdout/stderr.                         *)
(***************************************************************************)
InspectRunning(c) ==
    <<"docker", "inspect", "--format='{{.State.Running}}'", dir_path \o "_" \o c \o "_1">>

IsInspectRunning(cmd) == Len(cmd) = 4 /\ cmd[3] = "--format='{{.State.Running}}'"

ClusterUpPrefix == <<"oc", "cluster", "up">>

IsClusterUp(cmd) == Len(cmd) >= 3 /\ SubSeq(cmd, 1, 3) = ClusterUpPrefix

ClusterStatus == <<"oc", "cluster", "status">>

InspectStatus(c) ==
    <<"docker", "inspect", "--format='{{.State.Status}}'", dir_path \o "_" \o c \o "_1">>

IsInspectStatus(cmd) == Len(cmd) = 4 /\ cmd[3] = "--format='{{.State.Status}}'"

HubLogs == <<"docker", "logs", dir_path \o "_koji-hub_1">>

\* what "oc cluster status" may print: the URL line is followed by another
\* line or is the last one
ClusterStatusOutputs ==
    { << <<"Web console URL:">>, <<"https://", "172.17.0.1", ":8443">>,
         <<"Config is at host directory">> >>,
      << <<"Web console URL:">>, <<"https://", "172.17.0.1", ":8443">> >> }

\* what the hub container may have logged
HubLogOutputs ==
    { << <<"http://", "172.17.0.1", "/koji">>,
         <<"http://", "172.17.0.1", "/kojifiles">>,
         <<"httpd started">> >>,
      << <<>>, <<"starting httpd">> >> }

\* what "oc cluster up" may print: the server line carries the address or not
ClusterUpOutputs ==
    { << <<"Starting OpenShift">>,
         <<"The server is accessible via web console at:">>,
         <<"https://", "172.17.0.1", ":8443">> >>,
      << <<"Starting OpenShift">> >> }

Responses(cmd) ==
    IF IsInspectRunning(cmd)
    THEN { [rc |-> 0, lines |-> << <<"true">> >>],
           [rc |-> 0, lines |-> << <<"false">> >>],
           [rc |-> 1, lines |-> << <<"Error: No such object:", cmd[4]>> >>] }
    ELSE IF IsClusterUp(cmd)
    THEN { [rc |-> 0, lines |-> o] : o \in ClusterUpOutputs }
         \cup { [rc |-> 1, lines |-> << <<"Error: cluster up failed">> >>] }
    ELSE IF cmd = ClusterStatus
    THEN { [rc |-> 0, lines |-> o] : o \in ClusterStatusOutputs }
         \cup { [rc |-> 1, lines |-> << <<"Error: OpenShift cluster is not running">> >>] }
    ELSE IF cmd = HubLogs
    THEN { [rc |-> 0, lines |-> o] : o \in HubLogOutputs }
         \cup { [rc |-> 1, lines |-> << <<"Error: No such container:", cmd[3]>> >>] }
    ELSE IF IsInspectStatus(cmd)
    THEN { [rc |-> 0, lines |-> << <<"running">> >>],
           [rc |-> 1, lines |-> << <<"Error: No such object:", cmd[4]>> >>] }
    ELSE { [rc |-> 0, lines |-> <<>>],
           [rc |-> 1, lines |-> << <<"error">> >>] }

(***************************************************************************)
(* _run: run a command, echo and capture its output, raise on failure.     *)
(***************************************************************************)
RuntimeError(a) == [type |-> "RuntimeError", args |-> a]

\* a variant that never raises, as if every call passed ignore_exitcode=True
_run_NeverRaises(cmd, ignore_exitcode, show_print, res) ==
    [ exc |-> None,
      out |-> IF show_print
              THEN << <<"Running '">> \o cmd \o <<"'">> >> \o res.lines \o << <<>> >>
              ELSE <<>>,
      ret |-> Strip(JoinLines(res.lines)) ]

\* a variant that does not look at ignore_exitcode
_run_RaisesWhenIgnored(cmd, ignore_exitcode, show_print, res) ==
    LET output == JoinLines(res.lines)
        echo == IF show_print
                THEN << <<"Running '">> \o cmd \o <<"'">> >> \o res.lines
                ELSE <<>>
    IN  IF res.rc # 0
        THEN [ exc |-> RuntimeError(<< <<"Command">> \o cmd
                           \o <<"failed with exitcode", ToString(res.rc)>> >>),
               out |-> echo \o (IF ~show_print THEN <<output>> ELSE <<>>),
               ret |-> <<>> ]
        ELSE [ exc |-> None,
               out |-> echo \o (IF show_print THEN << <<>> >> ELSE <<>>),
               ret |-> Strip(output) ]

_run(cmd, ignore_exitcode, show_print, res) ==
    LET output == JoinLines(res.lines)
        echo == IF show_print
                THEN << <<"Running '">> \o cmd \o <<"'">> >> \o res.lines
                ELSE <<>>
        failed == ~ignore_exitcode /\ res.rc # 0
    IN  IF failed
        THEN [ exc |-> RuntimeError(<< <<"Command">> \o cmd
                           \o <<"failed with exitcode", ToString(res.rc)>> >>),
               out |-> echo \o (IF ~show_print THEN <<output>> ELSE <<>>),
               ret |-> <<>> ]
        ELSE [ exc |-> None,
               out |-> echo \o (IF show_print THEN << <<>> >> ELSE <<>>),
               ret |-> Strip(output) ]

\* an entry of the command log
Call(cmd, via, ignore, res) ==
    [cmd |-> cmd, via |-> via, ignore |-> ignore, rc |-> res.rc, lines |-> res.lines]

\* a handler statement  print(pre); _run(cmd, ignore_exitcode=ignore); print(post)
\* followed by the jump to next; an uncaught exception ends the run
RunStep(pre, cmd, ignore, post, next) ==
    \E res \in Responses(cmd) :
        LET r == _run(cmd, ignore, TRUE, res) IN
        /\ calls' = Append(calls, Call(cmd, "_run", ignore, res))
        /\ IF r.exc # None
           THEN /\ pc' = "raised"
                /\ exc' = r.exc
                /\ stdout' = stdout \o pre \o r.out
           ELSE /\ pc' = next
                /\ exc' = exc
                /\ stdout' = stdout \o pre \o r.out \o post

(***************************************************************************)
(* Command line.                                                           *)
(***************************************************************************)
Funcs == {"up", "down", "os-up", "os-down", "cleanup", "status", "pull-image",
          "copy-image"}

Sources == { <<"registry.example/foo:1">>, <<"docker://", "registry.example/foo:1">> }
Destinations == { <<"foo:1">> }

\* parse_args(): the options the parser of subcommand f defines
\* an option that was not given is None, modelled as the empty text
ArgSets(f) ==
    IF f = "up"
    THEN { [no_cleanup |-> nc, force_rebuild |-> FALSE, updates |-> FALSE,
            updates_testing |-> FALSE, distro |-> "fedora", repo_url |-> <<>>,
            ocp_version |-> "v3.6.0", ocp_image |-> "openshift/origin",
            public_hostname |-> <<>>] : nc \in BOOLEAN }
         \cup
         { [no_cleanup |-> TRUE, force_rebuild |-> TRUE, updates |-> TRUE,
            updates_testing |-> TRUE, distro |-> "rhel7",
            repo_url |-> <<"http://repo.example/extra.repo">>,
            ocp_version |-> "v3.9.0", ocp_image |-> "openshift/origin",
            public_hostname |-> <<"box.example">>] }
    ELSE IF f = "os-up"
    THEN { [ocp_version |-> "v3.6.0", ocp_image |-> "openshift/origin",
            public_hostname |-> h] : h \in { <<>>, <<"box.example">> } }
    ELSE IF f \in {"pull-image", "copy-image"}
    THEN { [source |-> s, destination |-> d] : s \in Sources, d \in Destinations }
    ELSE { [none |-> TRUE] }

Entry(f) ==
    CASE f = "up" -> "up"
      [] f = "down" -> "down"
      [] f = "cleanup" -> "down"
      [] f = "os-up" -> "os_up"
      [] f = "os-down" -> "os_down"
      [] f = "status" -> "status"
      [] f = "pull-image" -> "pull"
      [] f = "copy-image" -> "copy_image"

\* registries the config file may list before the script touches it
OtherRegistries == { <<>>,
                     << [domainName |-> "docker.io"],
                        [domainName |-> "registry.example", insecure |-> TRUE] >> }

InitialConfigs ==
    { [kind |-> "MasterConfig"],
      [kind |-> "MasterConfig", imagePolicyConfig |-> [maxImagesBulkImported |-> "5"]] }
    \cup { [kind |-> "MasterConfig",
            imagePolicyConfig |-> [allowedRegistriesForImport |-> rs]] :
           rs \in OtherRegistries }

Init ==
    /\ pc = "idle"
    /\ func = "none"
    /\ args = [none |-> TRUE]
    /\ ssl_exists = FALSE
    /\ config \in InitialConfigs
    /\ wrote = FALSE
    /\ calls = <<>>
    /\ polls = <<>>
    /\ polled = <<>>
    /\ stdout = <<>>
    /\ exc = None
    /\ idx = 0
    /\ pollIdx = 0
    /\ openshift_ip = <<>>
    /\ changed = FALSE
    /\ attempts = 0
    /\ container_is_up = FALSE
    /\ container = ""
    /\ str_to_find = <<>>
    /\ container_logs = <<>>
    /\ container_initialized = FALSE
    /\ line = Unbound
    /\ proc = [state |-> "none", returncode |-> 0]
    /\ pipe = <<>>
    /\ emitted = 0

\* the script is started: parsed = parser.parse_args(); parsed.func(parsed)
Main ==
    /\ pc \in {"idle", "done", "raised"}
    /\ \E f \in Funcs : \E a \in ArgSets(f) :
        /\ func' = f
        /\ args' = a
        /\ pc' = Entry(f)
        \* only up() looks at the ssl directory
        /\ ssl_exists' \in (IF f = "up" THEN BOOLEAN ELSE {FALSE})
    /\ wrote' = FALSE
    /\ calls' = <<>>
    /\ polls' = <<>>
    /\ polled' = <<>>
    /\ stdout' = <<>>
    /\ exc' = None
    /\ idx' = 0
    /\ pollIdx' = 0
    /\ openshift_ip' = <<>>
    /\ changed' = FALSE
    /\ attempts' = 0
    /\ container_is_up' = FALSE
    /\ container' = ""
    /\ str_to_find' = <<>>
    /\ container_logs' = <<>>
    /\ container_initialized' = FALSE
    /\ line' = Unbound
    /\ proc' = [state |-> "none", returncode |-> 0]
    /\ pipe' = <<>>
    /\ emitted' = 0
    /\ UNCHANGED config

(***************************************************************************)
(* down, cleanup, os_down.                                                 *)
(***************************************************************************)
\* cleanup(args) calls down(args, delete_volumes=True); up() calls cleanup
delete_volumes == func \in {"cleanup", "up"}

\* a variant that always deletes the volumes
ComposeDown_AlwaysVolumes(dv) == <<"docker-compose", "down", "-v">>

ComposeDown(dv) == <<"docker-compose", "down">> \o (IF dv THEN <<"-v">> ELSE <<>>)
ClusterDown == <<"oc", "cluster", "down">>

down ==
    /\ pc = "down"
    /\ RunStep(<< <<"osbs-box: down">> >>, ComposeDown(delete_volumes), TRUE,
               <<>>, "os_down")
    /\ UNCHANGED <<func, args, ssl_exists, config, wrote, handlerVars,
                   pollerVars, streamVars, pollLog>>

os_down ==
    /\ pc = "os_down"
    /\ RunStep(<<>>, ClusterDown, TRUE, <<>>,
               IF func = "up" THEN "up_certs" ELSE "done")
    /\ UNCHANGED <<func, args, ssl_exists, config, wrote, handlerVars,
                   pollerVars, streamVars, pollLog>>

(***************************************************************************)
(* pull-image and copy-image.                                              *)
(***************************************************************************)
\* a variant that forgets the registry prefix
PullDestination_NoPrefix(destination_repo) == destination_repo

PullDestination(destination_repo) == <<LOCAL_REGISTRY, "/">> \o destination_repo

PullCommands(source, destination_repo) ==
    << <<"docker", "pull">> \o source,
       <<"docker", "tag">> \o source \o PullDestination(destination_repo),
       <<"docker", "push">> \o PullDestination(destination_repo) >>

\* _pull_image: one step per _run call; idx counts the commands completed
_pull_image ==
    /\ pc = "pull"
    /\ LET cmds == PullCommands(args.source, args.destination)
           pre == IF idx = 0
                  THEN << <<"Pulling">> \o args.source \o <<"and pushing it to">>
                          \o PullDestination(args.destination) >>
                  ELSE <<>>
       IN  RunStep(pre, cmds[idx + 1], FALSE, <<>>,
                   IF idx + 1 = Len(cmds) THEN "done" ELSE "pull")
    /\ idx' = idx + 1
    /\ UNCHANGED <<func, args, ssl_exists, config, wrote, pollIdx, openshift_ip,
                   changed, pollerVars, streamVars, pollLog>>

\* the last lines up() prints
UpReport ==
    << <<"osbs-box is up">>,
       <<"make sure registry certificate from ./ssl/certs/domain.crt is copied to ",
         "/etc/docker/certs.d/172.17.0.1:5000/ca.crt">> >>

CopySource(source) ==
    IF source # <<>> /\ Head(source) = "docker://" THEN source
    ELSE <<"docker://">> \o source

CopyCommand(source, destination_repo) ==
    <<"docker", "run", "--rm", dir_path \o "_skopeo-lite", "copy",
      "--src-tls-verify=false", "--dest-tls-verify=false">>
    \o CopySource(source) \o <<"docker://", LOCAL_REGISTRY, "/">> \o destination_repo

\* _copy_image(source, destination), called by the copy-image subcommand
\* with its arguments and by up() once for every item of AUTO_PULL_IMAGES;
\* up() prints its last lines after the last call
_copy_image ==
    /\ pc = "copy_image"
    /\ LET source == IF func = "up" THEN <<AUTO_PULL_IMAGES[idx + 1][1]>>
                     ELSE args.source
           destination == IF func = "up" THEN <<AUTO_PULL_IMAGES[idx + 1][2]>>
                          ELSE args.destination
           last == func # "up" \/ idx + 1 = Len(AUTO_PULL_IMAGES)
       IN  RunStep(<< <<"Copying">> \o CopySource(source) \o <<"to">>
                      \o <<"docker://", LOCAL_REGISTRY, "/">> \o destination >>,
                   CopyCommand(source, destination), FALSE,
                   IF func = "up" /\ last THEN UpReport ELSE <<>>,
                   IF last THEN "done" ELSE "copy_image")
    /\ idx' = idx + 1
    /\ UNCHANGED <<func, args, ssl_exists, config, wrote, pollIdx, openshift_ip,
                   changed, pollerVars, streamVars, pollLog>>

(***************************************************************************)
(* _update_origin_config: add the local registry to the import allow-list. *)
(* The file holds plain YAML data (mappings, lists, strings), which        *)
(* safe_dump / safe_load carry over unchanged; a mapping is a function.    *)
(***************************************************************************)
\* dict.setdefault(k, v) seen as the dict after the call
SetDefault(d, k, v) == IF k \in DOMAIN d THEN d ELSE d @@ (k :> v)

EmptyDict == <<>>

\* a variant that looks for the address among the entries, not among their
\* domain names, and so never finds it
UpdateOriginConfig_AlwaysAppend(cfg) ==
    LET c1 == SetDefault(cfg, "imagePolicyConfig", EmptyDict)
        ipc == SetDefault(c1["imagePolicyConfig"], "allowedRegistriesForImport", <<>>)
        registries == ipc["allowedRegistriesForImport"]
        appended == Append(registries, [domainName |-> LOCAL_REGISTRY])
    IN  [ ret |-> TRUE, written |-> TRUE,
          file |-> [c1 EXCEPT !["imagePolicyConfig"] =
                      [ipc EXCEPT !["allowedRegistriesForImport"] = appended]] ]

\* the result of _update_origin_config on file contents cfg:
\* the value returned and the contents of the file afterwards
UpdateOriginConfig(cfg) ==
    LET c1 == SetDefault(cfg, "imagePolicyConfig", EmptyDict)
        ipc == SetDefault(c1["imagePolicyConfig"], "allowedRegistriesForImport", <<>>)
        registries == ipc["allowedRegistriesForImport"]
        domains == { registries[i].domainName : i \in DOMAIN registries }
        appended == Append(registries, [domainName |-> LOCAL_REGISTRY])
    IN  IF LOCAL_REGISTRY \notin domains
        THEN [ ret |-> TRUE, written |-> TRUE,
               file |-> [c1 EXCEPT !["imagePolicyConfig"] =
                           [ipc EXCEPT !["allowedRegistriesForImport"] = appended]] ]
        ELSE [ ret |-> FALSE, written |-> FALSE, file |-> cfg ]

\* a variant of the caller that goes on to log in whatever the patch reports
_update_origin_config_NoRestart ==
    /\ pc = "os_up_config"
    /\ LET u == UpdateOriginConfig(config) IN
        /\ config' = u.file
        /\ wrote' = (wrote \/ u.written)
        /\ changed' = u.ret
        /\ pc' = "os_up_login"
    /\ UNCHANGED <<func, args, ssl_exists, calls, stdout, exc, idx, pollIdx,
                   openshift_ip, pollerVars, streamVars, pollLog>>

_update_origin_config ==
    /\ pc = "os_up_config"
    /\ LET u == UpdateOriginConfig(config) IN
        /\ config' = u.file
        /\ wrote' = (wrote \/ u.written)
        /\ changed' = u.ret
        /\ pc' = IF u.ret THEN "os_up_restart" ELSE "os_up_login"
    /\ UNCHANGED <<func, args, ssl_exists, calls, stdout, exc, idx, pollIdx,
                   openshift_ip, pollerVars, streamVars, pollLog>>

(***************************************************************************)
(* os_up.                                                                  *)
(***************************************************************************)
ClusterUp(a) ==
    ClusterUpPrefix \o <<"--version", a.ocp_version, "--image", a.ocp_image>>
    \o (IF a.public_hostname # <<>>
        THEN <<"--public-hostname">> \o a.public_hostname ELSE <<>>)

\* re.search(r'https://(\d*.\d*.\d*.\d*):8443', output): the positions of a match
AddressTokens == {"172.17.0.1"}

OpenshiftMatches(output) ==
    { i \in 1..(Len(output) - 2) :
        /\ output[i] = "https://"
        /\ output[i + 1] \in AddressTokens
        /\ output[i + 2] = ":8443" }

Min(S) == CHOOSE x \in S : \A y \in S : x <= y

\* an entry of the poller log
Poll(poller, target, result) ==
    [poller |-> poller, target |-> target, result |-> result]

\* the latest poller call ends with result r
EndPoll(r) == [polls EXCEPT ![Len(polls)].result = r]

os_up ==
    /\ pc = "os_up"
    /\ LET cmd == ClusterUp(args) IN
       \E res \in Responses(cmd) :
        LET r == _run(cmd, FALSE, TRUE, res)
            m == OpenshiftMatches(r.ret)
        IN
        /\ calls' = Append(calls, Call(cmd, "_run", FALSE, res))
        /\ stdout' = stdout \o r.out
        /\ IF r.exc # None
           THEN /\ pc' = "raised"
                /\ exc' = r.exc
                /\ UNCHANGED openshift_ip
           ELSE IF m = {}
           THEN /\ pc' = "raised"
                /\ exc' = RuntimeError(<< <<"Failed to find openshift IP in output:", NL>>
                                          \o r.ret >>)
                /\ UNCHANGED openshift_ip
           ELSE /\ pc' = "os_up_config"
                /\ exc' = exc
                /\ openshift_ip' = <<r.ret[Min(m) + 1]>>
    /\ UNCHANGED <<func, args, ssl_exists, config, wrote, idx, pollIdx, changed,
                   pollerVars, streamVars, pollLog>>

os_up_restart ==
    /\ pc = "os_up_restart"
    /\ RunStep(<< <<"Restarting origin container due to config changes">> >>,
               <<"docker", "restart", "origin">>, FALSE,
               << <<"Waiting for OpenShift cluster to be up">> >>, "openshift_wait")
    /\ IF pc' = "openshift_wait"
       THEN /\ attempts' = 0
            /\ polled' = <<>>
            /\ polls' = Append(polls, Poll("openshift", "cluster", "running"))
       ELSE UNCHANGED <<attempts, polled, polls>>
    /\ UNCHANGED <<func, args, ssl_exists, config, wrote, handlerVars,
                   container_is_up, container, str_to_find, container_logs,
                   container_initialized, line, streamVars>>

\* time.sleep(1) in the poller log
Sleep == [cmd |-> <<"sleep", "1">>, via |-> "sleep", ignore |-> TRUE, rc |-> 0,
          lines |-> <<>>]

\* a variant that does not look at the exit status (subprocess.call)
check_call_NoRaise(cmd, res) == None

\* check_call(cmd): CalledProcessError when the exit status is not 0
check_call(cmd, res) ==
    IF res.rc # 0
    THEN [type |-> "CalledProcessError", args |-> <<ToString(res.rc)>> \o cmd]
    ELSE None

\* one iteration of the loop of _wait_until_openshift_is_up, and the raise
\* that follows the last one
_wait_until_openshift_is_up ==
    /\ pc = "openshift_wait"
    /\ \E res \in Responses(ClusterStatus) :
        LET e == check_call(ClusterStatus, res)
            \* stdout=DEVNULL: what the command prints goes nowhere
            entry == Call(ClusterStatus, "check_call", FALSE,
                          [rc |-> res.rc, lines |-> <<>>])
        IN
        IF e = None
        THEN /\ polled' = Append(polled, entry)
             /\ polls' = EndPoll("ok")
             /\ pc' = "poll_return"
             /\ UNCHANGED <<attempts, exc>>
        ELSE IF e.type = "CalledProcessError"
        THEN /\ polled' = polled \o <<entry, Sleep>>
             /\ attempts' = attempts + 1
             /\ IF attempts + 1 = OpenshiftAttempts
                THEN /\ pc' = "raised"
                     /\ exc' = RuntimeError(<< <<"OpenShift cluster is not up!",
                                   "See logs for \"origin\" container.">> >>)
                     /\ polls' = EndPoll("failed")
                ELSE /\ pc' = pc
                     /\ UNCHANGED <<exc, polls>>
        ELSE /\ polled' = Append(polled, entry)
             /\ polls' = EndPoll("failed")
             /\ pc' = "raised"
             /\ exc' = e
             /\ UNCHANGED attempts
    /\ UNCHANGED <<func, args, ssl_exists, config, wrote, calls, stdout,
                   handlerVars, container_is_up, container, str_to_find,
                   container_logs, container_initialized, line, streamVars>>

os_up_login ==
    /\ pc = "os_up_login"
    /\ RunStep(<<>>, <<"oc", "login", "-u", "system:admin", "https://">>
                     \o openshift_ip \o <<":8443">>,
               FALSE, <<>>, "os_up_admin")
    /\ UNCHANGED <<func, args, ssl_exists, config, wrote, handlerVars,
                   pollerVars, streamVars, pollLog>>

os_up_admin ==
    /\ pc = "os_up_admin"
    /\ RunStep(<<>>, <<"oc", "-n", "osbs", "adm", "policy",
                       "add-cluster-role-to-user", "cluster-admin", "osbs">>,
               FALSE, <<>>, IF func = "up" THEN "up_cp" ELSE "done")
    /\ UNCHANGED <<func, args, ssl_exists, config, wrote, handlerVars,
                   pollerVars, streamVars, pollLog>>

(***************************************************************************)
(* up.                                                                     *)
(***************************************************************************)
\* a variant that tears down whatever --no-cleanup says
up_AlwaysCleanup ==
    /\ pc = "up"
    /\ pc' = "down"
    /\ UNCHANGED <<func, args, ssl_exists, config, wrote, calls, stdout, exc,
                   handlerVars, pollerVars, streamVars, pollLog>>

up ==
    /\ pc = "up"
    /\ pc' = IF ~args.no_cleanup THEN "down" ELSE "up_certs"
    /\ UNCHANGED <<func, args, ssl_exists, config, wrote, calls, stdout, exc,
                   handlerVars, pollerVars, streamVars, pollLog>>

up_certs ==
    /\ pc = "up_certs"
    /\ IF ~ssl_exists
       THEN RunStep(<< <<"osbs-box: up">>, <<"Generating certificates">> >>,
                    <<"./generate-certs">>, FALSE, <<>>, "os_up")
       ELSE /\ stdout' = stdout \o << <<"osbs-box: up">>,
                                      <<"Reusing existing certificates">> >>
            /\ pc' = "os_up"
            /\ UNCHANGED <<calls, exc>>
    /\ UNCHANGED <<func, args, ssl_exists, config, wrote, handlerVars,
                   pollerVars, streamVars, pollLog>>

\* one iteration of the loop over DIRECTORIES
up_cp ==
    /\ pc = "up_cp"
    /\ LET directory == DIRECTORIES[idx + 1]
           filename == "Dockerfile." \o args.distro
       IN  RunStep(<<>>, <<"cp", "-rvf", directory \o "/" \o filename,
                           directory \o "/" \o "Dockerfile">>,
                   FALSE, <<>>,
                   IF idx + 1 = Len(DIRECTORIES) THEN "up_build" ELSE "up_cp")
    /\ idx' = IF idx + 1 = Len(DIRECTORIES) THEN 0 ELSE idx + 1
    /\ UNCHANGED <<func, args, ssl_exists, config, wrote, pollIdx, openshift_ip,
                   changed, pollerVars, streamVars, pollLog>>

DockerBuild(a) ==
    <<"docker", "build">>
    \o (IF a.force_rebuild THEN <<"--no-cache">> ELSE <<>>)
    \o (IF a.updates THEN <<"--build-arg", "UPDATES=1">> ELSE <<>>)
    \o (IF a.updates_testing THEN <<"--build-arg", "UPDATES_TESTING=1">> ELSE <<>>)
    \o (IF a.repo_url # <<>> THEN <<"--build-arg", "REPO_URL=">> \o a.repo_url ELSE <<>>)
    \o <<"-t", BASEIMAGE \o ":" \o a.distro, "base">>

up_build ==
    /\ pc = "up_build"
    /\ RunStep(<<>>, DockerBuild(args), FALSE, <<>>, "up_compose_build")
    /\ UNCHANGED <<func, args, ssl_exists, config, wrote, handlerVars,
                   pollerVars, streamVars, pollLog>>

\* one iteration of the loop over SERVICES
up_compose_build ==
    /\ pc = "up_compose_build"
    /\ RunStep(<<>>, <<"docker-compose", "build", SERVICES[idx + 1]>>, FALSE, <<>>,
               IF idx + 1 = Len(SERVICES) THEN "up_compose_up" ELSE "up_compose_build")
    /\ idx' = IF idx + 1 = Len(SERVICES) THEN 0 ELSE idx + 1
    /\ UNCHANGED <<func, args, ssl_exists, config, wrote, pollIdx, openshift_ip,
                   changed, pollerVars, streamVars, pollLog>>

ComposeUp == <<"docker-compose", "up", "-d">>

up_compose_up ==
    /\ pc = "up_compose_up"
    /\ RunStep(<<>>, ComposeUp, FALSE, << <<"Waiting for client to come up">> >>,
               "up_wait")
    /\ UNCHANGED <<func, args, ssl_exists, config, wrote, handlerVars,
                   pollerVars, streamVars, pollLog>>

\* a variant that leaves out the last readiness poll
UpPolls_WithoutLast ==
    << [poller |-> "container", target |-> "koji-client", str |-> <<>>],
       [poller |-> "logs", target |-> dir_path \o "_koji-client_1",
        str |-> <<"exec", "sleep", "infinity">>],
       [poller |-> "container", target |-> "koji-db", str |-> <<>>],
       [poller |-> "container", target |-> "koji-hub", str |-> <<>>],
       [poller |-> "container", target |-> "koji-builder", str |-> <<>>] >>

\* the readiness polls of up(), in program order
UpPolls ==
    << [poller |-> "container", target |-> "koji-client", str |-> <<>>],
       [poller |-> "logs", target |-> dir_path \o "_koji-client_1",
        str |-> <<"exec", "sleep", "infinity">>],
       [poller |-> "container", target |-> "koji-db", str |-> <<>>],
       [poller |-> "container", target |-> "koji-hub", str |-> <<>>],
       [poller |-> "container", target |-> "koji-builder", str |-> <<>>],
       [poller |-> "logs", target |-> dir_path \o "_koji-builder_1",
        str |-> <<"exec", "/usr/sbin/init">>] >>

\* up() between two poller calls: call the next poller, or go on to seed
\* the registry once the last one has returned
up_wait ==
    /\ pc = "up_wait"
    /\ IF pollIdx = Len(UpPolls)
       THEN /\ pc' = "copy_image"
            /\ stdout' = Append(stdout,
                   <<"Automatically populating local registry with images">>)
            /\ idx' = 0
            /\ UNCHANGED <<pollIdx, pollerVars, pollLog>>
       ELSE LET p == UpPolls[pollIdx + 1] IN
            /\ pollIdx' = pollIdx + 1
            /\ polls' = Append(polls, Poll(p.poller, p.target, "running"))
            /\ polled' = <<>>
            /\ container' = p.target
            /\ str_to_find' = p.str
            /\ attempts' = 0
            /\ container_is_up' = FALSE
            /\ container_logs' = <<>>
            /\ container_initialized' = FALSE
            /\ line' = Unbound
            /\ pc' = IF p.poller = "container" THEN "container_wait" ELSE "logs_popen"
            /\ stdout' = IF pollIdx + 1 = 3
                         THEN Append(stdout, <<"Checking that other containers are running">>)
                         ELSE stdout
            /\ UNCHANGED idx
    /\ UNCHANGED <<func, args, ssl_exists, config, wrote, calls, exc,
                   openshift_ip, changed, streamVars>>

\* a poller returns to its caller: its frame (with the Popen object and its
\* pipe) and the record of its invocations go away
poll_return ==
    /\ pc = "poll_return"
    /\ pc' = IF polls[Len(polls)].poller = "openshift" THEN "os_up_login" ELSE "up_wait"
    /\ polled' = <<>>
    /\ attempts' = 0
    /\ container_is_up' = FALSE
    /\ container' = ""
    /\ str_to_find' = <<>>
    /\ container_logs' = <<>>
    /\ container_initialized' = FALSE
    /\ line' = Unbound
    /\ proc' = [state |-> "none", returncode |-> 0]
    /\ pipe' = <<>>
    /\ emitted' = 0
    /\ UNCHANGED <<func, args, ssl_exists, config, wrote, calls, stdout, exc,
                   handlerVars, polls>>

(***************************************************************************)
(* _wait_until_container_is_up.                                            *)
(***************************************************************************)
AssertionError == [type |-> "AssertionError", args |-> <<>>]

\* one iteration of the loop, and the assert that follows the loop
_wait_until_container_is_up ==
    /\ pc = "container_wait"
    /\ LET cmd == InspectRunning(container) IN
       \E res \in Responses(cmd) :
        LET r == _run(cmd, FALSE, FALSE, res)
            entry == Call(cmd, "_run", FALSE, res)
        IN
        /\ stdout' = stdout \o r.out
        /\ IF r.exc = None
           THEN /\ polled' = Append(polled, entry)
                /\ attempts' = attempts + 1
                /\ IF r.ret = <<"true">>
                   THEN \* break; the assert passes
                        /\ container_is_up' = TRUE
                        /\ polls' = EndPoll("ok")
                        /\ pc' = "poll_return"
                        /\ exc' = exc
                   ELSE IF attempts + 1 = ContainerAttempts
                   THEN \* the loop ends; assert container_is_up fails
                        /\ polls' = EndPoll("failed")
                        /\ pc' = "raised"
                        /\ exc' = AssertionError
                        /\ UNCHANGED container_is_up
                   ELSE /\ pc' = pc
                        /\ UNCHANGED <<container_is_up, polls, exc>>
           ELSE IF r.exc.type = "CalledProcessError"
           THEN \* except CalledProcessError: sleep(1)
                /\ polled' = polled \o <<entry, Sleep>>
                /\ attempts' = attempts + 1
                /\ IF attempts + 1 = ContainerAttempts
                   THEN /\ polls' = EndPoll("failed")
                        /\ pc' = "raised"
                        /\ exc' = AssertionError
                   ELSE /\ pc' = pc
                        /\ UNCHANGED <<polls, exc>>
                /\ UNCHANGED container_is_up
           ELSE \* any other exception leaves the function
                /\ polled' = Append(polled, entry)
                /\ attempts' = attempts + 1
                /\ polls' = EndPoll("failed")
                /\ pc' = "raised"
                /\ exc' = r.exc
                /\ UNCHANGED container_is_up
    /\ UNCHANGED <<func, args, ssl_exists, config, wrote, calls, handlerVars,
                   container, str_to_find, container_logs, container_initialized,
                   line, streamVars>>

(***************************************************************************)
(* _wait_until_string_is_in_logs, and the "docker logs -f" child it reads. *)
(***************************************************************************)
\* Popen.returncode of a child that has not been reaped
NotExited == -1

LogsCommand(c) == <<"docker", "logs", "-f", c>>

\* lines the container may log; readline() keeps the newline
LogLines ==
    { <<"+", "exec", "sleep", "1", NL>>,
      <<"+", "exec", "sleep", "infinity", NL>>,
      <<"+", "exec", "/usr/sbin/init", NL>> }

Polling == pc \in {"logs_poll", "logs_readline"}

\* the child writes a line to its end of the pipe
LogsEmit ==
    /\ Polling
    /\ proc.state = "running"
    /\ emitted < MaxLines
    /\ \E l \in LogLines : pipe' = Append(pipe, l)
    /\ emitted' = emitted + 1
    /\ UNCHANGED <<pc, func, args, ssl_exists, config, wrote, calls, stdout, exc,
                   handlerVars, pollerVars, proc, pollLog>>

\* the child exits, which closes its end of the pipe
LogsExit ==
    /\ Polling
    /\ proc.state = "running"
    /\ \E rc \in {0, 1} : proc' = [state |-> "exited", returncode |-> rc]
    /\ UNCHANGED <<pc, func, args, ssl_exists, config, wrote, calls, stdout, exc,
                   handlerVars, pollerVars, pipe, emitted, pollLog>>

\* process = Popen(cmd, stdout=PIPE, stderr=STDOUT)
logs_popen ==
    /\ pc = "logs_popen"
    /\ proc' = [state |-> "running", returncode |-> NotExited]
    /\ pipe' = <<>>
    /\ emitted' = 0
    /\ polled' = << Call(LogsCommand(container), "Popen", TRUE,
                         [rc |-> NotExited, lines |-> <<>>]) >>
    /\ pc' = "logs_poll"
    /\ UNCHANGED <<func, args, ssl_exists, config, wrote, calls, stdout, exc,
                   handlerVars, pollerVars, polls>>

\* process.poll(): None while the child runs, else its exit status
ProcessPoll(p) == IF p.state = "running" THEN "None" ELSE ToString(p.returncode)

\* Python truth value of what poll() returns
Truthy(v) == v \notin {"None", "0"}

\* a variant that raises without printing the log text
LogsFailure_NoPrint(logs, c) ==
    [ out |-> <<>>,
      exc |-> RuntimeError(<< <<"%s failed to start">>, <<c>> >>) ]

\* the statements after the loop when container_initialized is False:
\* what is printed, and the exception raised
LogsFailure(logs, c) ==
    [ out |-> <<logs>>,
      exc |-> RuntimeError(<< <<"%s failed to start">>, <<c>> >>) ]

\* the loop test  while not process.poll()
logs_poll ==
    /\ pc = "logs_poll"
    /\ IF ~Truthy(ProcessPoll(proc))
       THEN /\ pc' = "logs_readline"
            /\ UNCHANGED <<stdout, exc, polls>>
       ELSE LET f == LogsFailure(container_logs, container) IN
            /\ stdout' = stdout \o f.out
            /\ exc' = f.exc
            /\ polls' = EndPoll("failed")
            /\ pc' = "raised"
    /\ UNCHANGED <<func, args, ssl_exists, config, wrote, calls, handlerVars,
                   pollerVars, streamVars, polled>>

\* the loop body: readline() blocks until the child has written a line or
\* has closed the pipe
logs_readline ==
    /\ pc = "logs_readline"
    /\ pipe # <<>> \/ proc.state = "exited"
    /\ IF pipe = <<>>
       THEN \* if not line: break
            LET f == LogsFailure(container_logs, container) IN
            /\ stdout' = stdout \o f.out
            /\ exc' = f.exc
            /\ polls' = EndPoll("failed")
            /\ pc' = "raised"
            /\ line' = <<>>
            /\ UNCHANGED <<pipe, container_logs, container_initialized>>
       ELSE LET decoded_line == Head(pipe) IN
            /\ pipe' = Tail(pipe)
            /\ line' = decoded_line
            /\ container_logs' = container_logs \o decoded_line
            /\ IF IsSubstr(str_to_find, decoded_line)
               THEN /\ stdout' = Append(stdout, <<"Container", container, "is up">>)
                    /\ container_initialized' = TRUE
                    /\ polls' = EndPoll("ok")
                    /\ pc' = "poll_return"
               ELSE /\ pc' = "logs_poll"
                    /\ UNCHANGED <<stdout, container_initialized, polls>>
            /\ exc' = exc
    /\ UNCHANGED <<func, args, ssl_exists, config, wrote, calls, handlerVars,
                   attempts, container_is_up, container, str_to_find, proc,
                   emitted, polled>>

(***************************************************************************)
(* status.                                                                 *)
(***************************************************************************)
HttpTokens == {"http://", "https://"}

\* position of the first newline at or after position i, 0 when there is none
NextNL(t, i) ==
    LET S == { j \in i..Len(t) : t[j] = NL } IN IF S = {} THEN 0 ELSE Min(S)

\* re.search("(https://.*)\n", output): group(1) of the leftmost match,
\* the empty text when nothing matches
OpenshiftUrl(output) ==
    LET S == { i \in DOMAIN output : output[i] = "https://" /\ NextNL(output, i) # 0 }
    IN  IF S = {} THEN <<>>
        ELSE SubSeq(output, Min(S), NextNL(output, Min(S)) - 1)

\* re.search("(http.*/koji)\n(http.*/kojifiles)\n", output): the positions
\* where a match starts
KojiMatches(output) ==
    { i \in DOMAIN output :
        /\ output[i] \in HttpTokens
        /\ LET n == NextNL(output, i) IN
            /\ n > i + 1
            /\ output[n - 1] = "/koji"
            /\ n + 1 <= Len(output)
            /\ output[n + 1] \in HttpTokens
            /\ LET m == NextNL(output, n + 1) IN
                /\ m > n + 2
                /\ output[m - 1] = "/kojifiles" }

\* group(1) and group(2) of the leftmost match
KojiGroups(output) ==
    LET i == Min(KojiMatches(output))
        n == NextNL(output, i)
        m == NextNL(output, n + 1)
    IN  << SubSeq(output, i, n - 1), SubSeq(output, n + 1, m - 1) >>

\* a variant whose except clause sets nothing
ServiceStatus_NoDefault(r) == r.ret

\* try: status = _run(cmd, show_print=False)
\* except RuntimeError: status = "not found"
ServiceStatus(r) ==
    IF r.exc # None /\ r.exc.type = "RuntimeError" THEN <<"not found">> ELSE r.ret

\* the first try block: show the OpenShift cluster
status ==
    /\ pc = "status"
    /\ \E res \in Responses(ClusterStatus) :
        LET r == _run(ClusterStatus, FALSE, FALSE, res)
            url == OpenshiftUrl(r.ret)
        IN
        /\ calls' = Append(calls, Call(ClusterStatus, "_run", FALSE, res))
        /\ IF r.exc = None
           THEN /\ stdout' = stdout \o r.out
                       \o (IF url # <<>>
                           THEN << <<"Openshift URL: ">> \o url,
                                   <<"Credentials: osbs/osbs">>,
                                   <<"Namespaces: 'osbs' for orchestration builds, 'worker' for worker builds">> >>
                           ELSE << <<"Failed to find Openshift URL in the output">> >>)
                       \o << <<>> >>
                /\ pc' = "status_koji"
                /\ exc' = exc
           ELSE IF r.exc.type = "RuntimeError"
           THEN /\ stdout' = stdout \o r.out \o << <<"Openshift is not running">>, <<>> >>
                /\ pc' = "status_koji"
                /\ exc' = exc
           ELSE /\ stdout' = stdout \o r.out
                /\ pc' = "raised"
                /\ exc' = r.exc
    /\ UNCHANGED <<func, args, ssl_exists, config, wrote, handlerVars,
                   pollerVars, streamVars, pollLog>>

\* the second try block: show the Koji details
status_koji ==
    /\ pc = "status_koji"
    /\ \E res \in Responses(HubLogs) :
        LET r == _run(HubLogs, FALSE, FALSE, res) IN
        /\ calls' = Append(calls, Call(HubLogs, "_run", FALSE, res))
        /\ IF r.exc = None
           THEN /\ stdout' = stdout \o r.out
                       \o (IF KojiMatches(r.ret) # {}
                           THEN << <<"Koji hub URL: ">> \o KojiGroups(r.ret)[1],
                                   <<"Koji files URL: ">> \o KojiGroups(r.ret)[2] >>
                           ELSE << <<"Failed to find Koji Hub URL in the output">> >>)
                       \o << <<>> >>
                /\ pc' = "status_services"
                /\ exc' = exc
           ELSE IF r.exc.type = "RuntimeError"
           THEN \* pass
                /\ stdout' = stdout \o r.out \o << <<>> >>
                /\ pc' = "status_services"
                /\ exc' = exc
           ELSE /\ stdout' = stdout \o r.out
                /\ pc' = "raised"
                /\ exc' = r.exc
    /\ UNCHANGED <<func, args, ssl_exists, config, wrote, handlerVars,
                   pollerVars, streamVars, pollLog>>

\* one iteration of the loop over SERVICES: show the container status
status_services ==
    /\ pc = "status_services"
    /\ LET service == SERVICES[idx + 1]
           cmd == InspectStatus(service)
       IN
       \E res \in Responses(cmd) :
        LET r == _run(cmd, FALSE, FALSE, res) IN
        /\ calls' = Append(calls, Call(cmd, "_run", FALSE, res))
        /\ IF r.exc # None /\ r.exc.type # "RuntimeError"
           THEN /\ stdout' = stdout \o r.out
                /\ pc' = "raised"
                /\ exc' = r.exc
           ELSE /\ stdout' = stdout \o r.out
                       \o << <<service, ": ">> \o Strip(ServiceStatus(r)) >>
                /\ pc' = IF idx + 1 = Len(SERVICES) THEN "done" ELSE "status_services"
                /\ exc' = exc
    /\ idx' = idx + 1
    /\ UNCHANGED <<func, args, ssl_exists, config, wrote, pollIdx, openshift_ip,
                   changed, pollerVars, streamVars, pollLog>>

Next ==
    \/ Main
    \/ down
    \/ os_down
    \/ _pull_image
    \/ _copy_image
    \/ os_up
    \/ _update_origin_config
    \/ os_up_restart
    \/ _wait_until_openshift_is_up
    \/ os_up_login
    \/ os_up_admin
    \/ up
    \/ up_certs
    \/ up_cp
    \/ up_build
    \/ up_compose_build
    \/ up_compose_up
    \/ up_wait
    \/ poll_return
    \/ _wait_until_container_is_up
    \/ logs_popen
    \/ logs_poll
    \/ logs_readline
    \/ status
    \/ status_koji
    \/ status_services
    \/ LogsEmit
    \/ LogsExit

Spec == Init /\ [][Next]_vars

(***************************************************************************)
(* The script's own steps are fair: a step that can be taken is taken.     *)
(* Nothing obliges the user to start the script again, nor the container   *)
(* to log a line or the "docker logs -f" child to exit.                    *)
(***************************************************************************)
Step ==
    \/ down \/ os_down \/ _pull_image \/ _copy_image
    \/ os_up \/ _update_origin_config \/ os_up_restart
    \/ _wait_until_openshift_is_up \/ os_up_login \/ os_up_admin
    \/ up \/ up_certs \/ up_cp \/ up_build \/ up_compose_build \/ up_compose_up
    \/ up_wait \/ poll_return \/ _wait_until_container_is_up
    \/ logs_popen \/ logs_poll \/ logs_readline
    \/ status \/ status_koji \/ status_services

FairSpec == Spec /\ WF_vars(Step)

(***************************************************************************)
(* Vocabulary of the properties.                                           *)
(***************************************************************************)
Last(s) == s[Len(s)]

\* the poller call that is running or was the last to run
LatestPoll == Last(polls)

\* the latest poller call is a call of poller p
Latest(p) == polls # <<>> /\ LatestPoll.poller = p

\* the invocations the latest poller call made through runner via
Invocations(via) == SelectSeq(polled, LAMBDA e : e.via = via)

ReportsTrue(e) == e.rc = 0 /\ e.lines = << <<"true">> >>

\* text cut into lines, each with its newline
RECURSIVE SplitLines(_)
SplitLines(t) ==
    IF t = <<>> THEN <<>>
    ELSE LET k == Min({ i \in 1..Len(t) : t[i] = NL } \cup {Len(t)})
         IN  <<SubSeq(t, 1, k)>> \o SplitLines(SubSeq(t, k + 1, Len(t)))

\* the lines the log poller has read
LinesRead == SplitLines(container_logs)

\* everything the streaming child has written: what was read, then what waits
Stream == LinesRead \o pipe

HasTarget(l) == IsSubstr(str_to_find, l)

\* a poller call has ended: it returns to its caller or its exception ends the run
Ended(p) ==
    /\ Latest(p)
    /\ \/ pc = "poll_return"
       \/ pc = "raised" /\ LatestPoll.result = "failed"

\* the lines put together again
RECURSIVE JoinLinesRaw(_)
JoinLinesRaw(ls) == IF ls = <<>> THEN <<>> ELSE Head(ls) \o JoinLinesRaw(Tail(ls))

(***************************************************************************)
(* C1.  State-flag poller: whatever the inspections answer ('true',        *)
(* another output, a non-zero exit), the poller succeeds if an attempt     *)
(* reports 'true', and it signals failure only after exactly 10            *)
(* inspections none of which reported 'true'.                              *)
(* The code lets the RuntimeError of a failed inspection out of the loop   *)
(* (the except clause names CalledProcessError): this statement fails.     *)
(***************************************************************************)
C1_StateFlagPoller ==
    Ended("container") =>
        LET insp == Invocations("_run") IN
        /\ (\E i \in DOMAIN insp : ReportsTrue(insp[i])) => LatestPoll.result = "ok"
        /\ LatestPoll.result = "failed" =>
              /\ Len(insp) = 10
              /\ \A i \in DOMAIN insp : ~ReportsTrue(insp[i])

(***************************************************************************)
(* C2.  Log poller: when the N-th line of the stream is the first with     *)
(* the target substring, the poller returns success after reading exactly  *)
(* N lines, whatever the state of the streaming child.                     *)
(* The loop test stops reading once the child has exited with a non-zero   *)
(* status, also when the target line waits in the pipe: this fails.        *)
(***************************************************************************)
C2_SuccessAtNthLine ==
    (Ended("logs") /\ \E n \in DOMAIN Stream : HasTarget(Stream[n])) =>
        LET N == Min({ n \in DOMAIN Stream : HasTarget(Stream[n]) }) IN
        /\ LatestPoll.result = "ok"
        /\ Len(LinesRead) = N

(***************************************************************************)
(* C3.  Log poller at end of stream.                                       *)
(***************************************************************************)
\* readline() has returned the empty string, after lines none of which
\* has the target
EndOfStream ==
    /\ Latest("logs")
    /\ pc \notin {"logs_popen", "logs_poll", "logs_readline"}
    /\ line = <<>>
    /\ \A n \in DOMAIN LinesRead : ~HasTarget(LinesRead[n])

\* C3 as claimed: at end of stream without the target the poller raises an
\* error, and the error contains the buffered log text.
C3_ErrorContainsLogs ==
    EndOfStream =>
        /\ pc = "raised"
        /\ exc.type = "RuntimeError"
        /\ \E i \in DOMAIN exc.args : IsSubstr(container_logs, exc.args[i])

\* C3 amended: at end of stream without the target the poller prints the
\* buffered log text and then raises a RuntimeError whose arguments are the
\* format string and the container name; the log text is not in the error.
C3_LogsPrintedThenError ==
    EndOfStream =>
        /\ pc = "raised"
        /\ exc = [type |-> "RuntimeError",
                  args |-> << <<"%s failed to start">>, <<container>> >>]
        /\ stdout # <<>>
        /\ Last(stdout) = container_logs
        /\ JoinLinesRaw(LinesRead) = container_logs

C3_Witness ==
    /\ EndOfStream
    /\ Len(LinesRead) >= 2

(***************************************************************************)
(* C4.  Cluster poller: it returns right after the first status            *)
(* invocation that exits with status 0 (after exactly k invocations when   *)
(* attempt k <= 90 is the first to succeed), and it raises the fatal       *)
(* error only after exactly 90 invocations that all failed.                *)
(***************************************************************************)
C4_ClusterPoller ==
    LET st == Invocations("check_call")
        n == Len(st)
    IN  /\ (Latest("openshift") /\ pc = "openshift_wait") =>
              /\ n < 90
              /\ \A i \in 1..n : st[i].rc # 0
        /\ (Latest("openshift") /\ pc = "poll_return") =>
              /\ LatestPoll.result = "ok"
              /\ n \in 1..90
              /\ st[n].rc = 0
              /\ \A i \in 1..(n - 1) : st[i].rc # 0
        /\ (Latest("openshift") /\ LatestPoll.result = "failed") =>
              /\ pc = "raised"
              /\ exc.type = "RuntimeError"
              /\ n = 90
              /\ \A i \in 1..n : st[i].rc # 0
        /\ (Latest("openshift") /\ LatestPoll.result = "running") =>
              pc = "openshift_wait"

\* the poller gave up after the 90th failed invocation
C4_Witness ==
    /\ Latest("openshift")
    /\ LatestPoll.result = "failed"
    /\ Len(Invocations("check_call")) = 90

(***************************************************************************)
(* C5.  Registry-config patch: on a config without an entry for the local  *)
(* registry it appends exactly one, keeps the others, writes the file and  *)
(* reports True; on a config that has the entry it reports False and       *)
(* writes nothing; the list never holds more than one such entry.          *)
(***************************************************************************)
\* the allow-list of a config; an absent list counts as empty
Registries(cfg) ==
    IF "imagePolicyConfig" \in DOMAIN cfg
       /\ "allowedRegistriesForImport" \in DOMAIN cfg["imagePolicyConfig"]
    THEN cfg["imagePolicyConfig"]["allowedRegistriesForImport"]
    ELSE <<>>

LocalEntries(cfg) ==
    { i \in DOMAIN Registries(cfg) : Registries(cfg)[i].domainName = "172.17.0.1:5000" }

\* what a config holds besides the allow-list
Rest(cfg) ==
    [ top |-> [k \in DOMAIN cfg \ {"imagePolicyConfig"} |-> cfg[k]],
      policy |-> IF "imagePolicyConfig" \in DOMAIN cfg
                 THEN [k \in DOMAIN cfg["imagePolicyConfig"]
                            \ {"allowedRegistriesForImport"} |->
                          cfg["imagePolicyConfig"][k]]
                 ELSE <<>> ]

\* one application of the patch to the file as it is
C5_PatchStep ==
    pc = "os_up_config" =>
        IF LocalEntries(config) = {}
        THEN /\ Registries(config') =
                    Append(Registries(config), [domainName |-> "172.17.0.1:5000"])
             /\ Rest(config') = Rest(config)
             /\ changed' = TRUE
             /\ wrote' = TRUE
        ELSE /\ config' = config
             /\ changed' = FALSE
             /\ wrote' = wrote

\* C5: every application of the patch is such a step, the allow-list never
\* holds two entries for the local registry, and after an application it
\* holds exactly one; the file is written exactly when True is reported.
C5_RegistryPatch ==
    /\ [][C5_PatchStep]_vars
    /\ [](Cardinality(LocalEntries(config)) <= 1)
    /\ []((pc \in {"os_up_restart", "os_up_login"}) =>
             /\ Cardinality(LocalEntries(config)) = 1
             /\ wrote = changed)

\* the patch was applied to a config that had the entry: unchanged, no write
C5_Witness ==
    /\ pc = "os_up_login"
    /\ ~changed
    /\ ~wrote
    /\ Cardinality(LocalEntries(config)) = 1
    /\ Len(Registries(config)) = 3

(***************************************************************************)
(* C6.  up --no-cleanup.                                                   *)
(***************************************************************************)
IsTeardown(cmd) ==
    \/ Len(cmd) >= 2 /\ SubSeq(cmd, 1, 2) = <<"docker-compose", "down">>
    \/ Len(cmd) >= 3 /\ SubSeq(cmd, 1, 3) = <<"oc", "cluster", "down">>

IsClusterStart(cmd) == Len(cmd) >= 3 /\ SubSeq(cmd, 1, 3) = <<"oc", "cluster", "up">>

\* without --no-cleanup the two teardown commands come first
TeardownFirst ==
    (func = "up" /\ ~args.no_cleanup) =>
        /\ Len(calls) >= 1 => calls[1].cmd = <<"docker-compose", "down", "-v">>
        /\ Len(calls) >= 2 => calls[2].cmd = <<"oc", "cluster", "down">>
        /\ \A i \in DOMAIN calls : IsClusterStart(calls[i].cmd) => i > 2

\* C6 as claimed: with --no-cleanup no teardown command is ever issued and
\* the first external command is the cluster-start command; without it the
\* teardown commands are issued before cluster start.
C6_NoCleanupStartsCluster ==
    /\ (func = "up" /\ args.no_cleanup) =>
          /\ \A i \in DOMAIN calls : ~IsTeardown(calls[i].cmd)
          /\ \A i \in DOMAIN polled : ~IsTeardown(polled[i].cmd)
          /\ calls # <<>> => IsClusterStart(calls[1].cmd)
    /\ TeardownFirst

\* C6 amended: with --no-cleanup no teardown command is ever issued; the
\* first external command is the cluster-start command when the ssl
\* directory exists, and ./generate-certs, followed by the cluster-start
\* command, when it does not; without --no-cleanup the teardown commands
\* are issued before cluster start.
C6_NoCleanupSkipsTeardown ==
    /\ (func = "up" /\ args.no_cleanup) =>
          /\ \A i \in DOMAIN calls : ~IsTeardown(calls[i].cmd)
          /\ \A i \in DOMAIN polled : ~IsTeardown(polled[i].cmd)
          /\ (calls # <<>> /\ ssl_exists) => IsClusterStart(calls[1].cmd)
          /\ (calls # <<>> /\ ~ssl_exists) => calls[1].cmd = <<"./generate-certs">>
          /\ (Len(calls) >= 2 /\ ~ssl_exists) => IsClusterStart(calls[2].cmd)
    /\ TeardownFirst

C6_Witness ==
    /\ func = "up"
    /\ args.no_cleanup
    /\ ssl_exists
    /\ pc = "done"

(***************************************************************************)
(* C7.  pull-image issues pull of source, tag of source to                 *)
(* LOCAL_REGISTRY/destination and push of LOCAL_REGISTRY/destination, in   *)
(* this order and nothing else; a command is issued only after the one     *)
(* before it has succeeded, and the run completes with exactly the three.  *)
(***************************************************************************)
C7_PullTagPush ==
    func = "pull-image" =>
        LET dest == <<"172.17.0.1:5000", "/">> \o args.destination
            expected == << <<"docker", "pull">> \o args.source,
                           <<"docker", "tag">> \o args.source \o dest,
                           <<"docker", "push">> \o dest >>
        IN  /\ Len(calls) <= 3
            /\ \A i \in DOMAIN calls : calls[i].cmd = expected[i]
            /\ \A i \in 1..(Len(calls) - 1) : calls[i].rc = 0
            /\ polled = <<>>
            /\ pc = "done" <=> (Len(calls) = 3 /\ calls[3].rc = 0)
            /\ pc = "raised" <=> (calls # <<>> /\ Last(calls).rc # 0)

C7_Witness ==
    /\ func = "pull-image"
    /\ pc = "done"
    /\ Len(calls) = 3
    /\ args.destination = <<"foo:1">>
    /\ args.source = <<"registry.example/foo:1">>

(***************************************************************************)
(* C8.  A failed command aborts up / down.                                 *)
(***************************************************************************)
\* the command of a log entry has exited with a non-zero status
Failed(e) == e.via # "sleep" /\ e.rc > 0

\* the command was run through _run with its exit status checked, and failed
CheckedFailed(e) == e.via = "_run" /\ ~e.ignore /\ e.rc > 0

\* some command of the run has exited with a non-zero status
SomeFailure ==
    \/ \E i \in DOMAIN calls : Failed(calls[i])
    \/ \E i \in DOMAIN polled : Failed(polled[i])

\* some command run through _run with its exit status checked has failed
CheckedFailure ==
    \/ \E i \in DOMAIN calls : CheckedFailed(calls[i])
    \/ \E i \in DOMAIN polled : CheckedFailed(polled[i])

\* this step issues an external command
Issues == Len(calls') > Len(calls) \/ Len(polled') > Len(polled)

\* C8 as claimed: in every run of up and of down, once an external command
\* of the sequence has exited with a non-zero status, no later command of
\* the sequence is issued.
C8_AnyFailureAborts ==
    [][(func \in {"up", "down"} /\ SomeFailure) => ~Issues]_vars

\* C8 amended: in every run of up and of down, once a command run through
\* _run with its exit status checked (every command but the two teardown
\* commands, the cluster-status polls and the log-streaming command) has
\* exited with a non-zero status, the run has ended with a RuntimeError and
\* no later command is issued; the teardown commands ignore their exit
\* status, so a run of down issues both of them whatever the first returns.
C8_CheckedFailureAborts ==
    /\ [][(func \in {"up", "down"} /\ CheckedFailure) => ~Issues]_vars
    /\ []((func \in {"up", "down"} /\ CheckedFailure) =>
             /\ pc = "raised"
             /\ exc.type = "RuntimeError")
    /\ []((func = "down" /\ pc \in {"done", "raised"}) =>
             /\ pc = "done"
             /\ Len(calls) = 2)

\* a build step of up has failed after the teardown commands had failed too
C8_Witness ==
    /\ func = "up"
    /\ pc = "raised"
    /\ Len(calls) >= 10
    /\ calls[1].rc > 0
    /\ Last(calls).rc > 0
    /\ Last(calls).cmd[1] = "docker-compose"

(***************************************************************************)
(* C9.  Termination of the readiness pollers.                              *)
(***************************************************************************)
InLogPoller == pc \in {"logs_popen", "logs_poll", "logs_readline"}

InPoller == InLogPoller \/ pc \in {"container_wait", "openshift_wait"}

\* C9 as claimed: every poller call eventually reports readiness or
\* declares failure, whatever the resource does.
C9_EveryPollerTerminates == InPoller ~> ~InPoller

\* C9 amended: the state-flag poller and the cluster poller end after at
\* most 10 and 90 attempts whatever the resource does; the log poller has
\* no attempt bound: it ends once the stream holds a line with the target
\* or the streaming child has exited, and it blocks in readline() for as
\* long as the stream stays open without the target.
C9_BoundedPollersTerminate ==
    /\ (pc = "container_wait") ~> (pc \in {"poll_return", "raised"})
    /\ (pc = "openshift_wait") ~> (pc \in {"poll_return", "raised"})
    /\ [](pc = "container_wait" => attempts < 10 /\ Len(Invocations("_run")) = attempts)
    /\ [](pc = "openshift_wait" =>
             attempts < 90 /\ Len(Invocations("check_call")) = attempts)
    /\ (InLogPoller /\ (proc.state = "exited" \/ \E n \in DOMAIN pipe : HasTarget(pipe[n])))
          ~> (pc \in {"poll_return", "raised"})

\* the state-flag poller gave up after its 10th attempt
C9_Witness ==
    /\ Latest("container")
    /\ pc = "raised"
    /\ exc.type = "AssertionError"
    /\ attempts = 10

(***************************************************************************)
(* C10.  Order of the steps of up: teardown, cluster start, image builds,  *)
(* compose-stack start, the six readiness polls, registry seeding; no      *)
(* readiness poll starts before the compose-stack start has succeeded;     *)
(* the registry is seeded and 'osbs-box is up' is printed only after all   *)
(* six polls have succeeded.                                               *)
(***************************************************************************)
Phase(cmd) ==
    CASE IsTeardown(cmd) -> 1
      [] cmd[1] = "./generate-certs" -> 2
      [] cmd[1] = "oc" /\ ~IsTeardown(cmd) -> 2
      [] cmd[1] = "docker" /\ cmd[2] = "restart" -> 2
      [] cmd[1] = "cp" -> 3
      [] cmd[1] = "docker" /\ cmd[2] = "build" -> 3
      [] cmd[1] = "docker-compose" /\ cmd[2] = "build" -> 3
      [] cmd[1] = "docker-compose" /\ cmd[2] = "up" -> 4
      [] cmd[1] = "docker" /\ cmd[2] = "run" -> 6
      [] OTHER -> 0

\* the readiness polls made once the stack is started, in order
ReadinessPolls == SelectSeq(polls, LAMBDA q : q.poller # "openshift")

SixPolls ==
    << <<"container", "koji-client">>, <<"logs", "osbsbox_koji-client_1">>,
       <<"container", "koji-db">>, <<"container", "koji-hub">>,
       <<"container", "koji-builder">>, <<"logs", "osbsbox_koji-builder_1">> >>

\* C10: the commands of a run of up never go back to an earlier phase, the
\* six polls are made in order, each after the one before has succeeded and
\* all after the compose-stack start has succeeded, and seeding and the
\* report 'osbs-box is up' come only after all six have succeeded.
C10_UpOrder ==
    func = "up" =>
        LET rp == ReadinessPolls
            seeded == calls # <<>> /\ Phase(Last(calls).cmd) = 6
        IN
        /\ \A i \in DOMAIN calls : Phase(calls[i].cmd) > 0
        /\ \A i \in 1..(Len(calls) - 1) :
              Phase(calls[i].cmd) <= Phase(calls[i + 1].cmd)
        /\ Len(rp) <= 6
        /\ \A i \in DOMAIN rp :
              /\ <<rp[i].poller, rp[i].target>> = SixPolls[i]
              /\ i < Len(rp) => rp[i].result = "ok"
        /\ (rp # <<>> \/ InLogPoller \/ pc = "container_wait") =>
              /\ calls # <<>>
              /\ \E i \in DOMAIN calls :
                    calls[i].cmd = <<"docker-compose", "up", "-d">> /\ calls[i].rc = 0
              /\ ~seeded => Last(calls).cmd = <<"docker-compose", "up", "-d">>
        /\ (InLogPoller \/ pc = "container_wait") => ~seeded
        /\ seeded => /\ Len(rp) = 6
                     /\ \A i \in 1..6 : rp[i].result = "ok"
        /\ (\E i \in DOMAIN stdout : stdout[i] = <<"osbs-box is up">>) =>
              /\ seeded
              /\ Last(calls).rc = 0
              /\ pc = "done"

C10_Witness ==
    /\ func = "up"
    /\ pc = "done"
    /\ ~args.no_cleanup
    /\ \E i \in DOMAIN stdout : stdout[i] = <<"osbs-box is up">>

(***************************************************************************)
(* C11.  os_up: cluster start, config patch, login, grant of               *)
(* cluster-admin, in this order; the origin container is restarted and     *)
(* cluster readiness is polled if and only if the patch reported a change, *)
(* and then login is issued only after the poll has succeeded; when no     *)
(* address can be taken from the cluster-start output, os_up raises before  *)
(* the config is patched and before login is issued.                       *)
(***************************************************************************)
\* the commands os_up issued in this run: the log from cluster start on
OsUpCalls ==
    LET S == { i \in DOMAIN calls : IsClusterStart(calls[i].cmd) }
    IN  IF S = {} THEN <<>> ELSE SubSeq(calls, Min(S), Len(calls))

IsRestart(cmd) == cmd = <<"docker", "restart", "origin">>

IsLogin(cmd) == Len(cmd) >= 2 /\ SubSeq(cmd, 1, 2) = <<"oc", "login">>

IsGrant(cmd) ==
    cmd = <<"oc", "-n", "osbs", "adm", "policy", "add-cluster-role-to-user",
            "cluster-admin", "osbs">>

\* the cluster pollers called in this run
ClusterPolls == SelectSeq(polls, LAMBDA q : q.poller = "openshift")

NoAddress ==
    /\ pc = "raised"
    /\ exc.type = "RuntimeError"
    /\ exc.args[1][1] = "Failed to find openshift IP in output:"

\* the steps of os_up in a state of a run of os-up or of up
C11_Order ==
    LET c == OsUpCalls
        n == IF changed THEN 1 ELSE 0
    IN
    /\ (pc \in {"os_up_config", "os_up_restart", "openshift_wait",
                "os_up_login", "os_up_admin"}) => c # <<>>
    \* cluster start, then the patch
    /\ pc = "os_up_config" =>
          Len(c) = 1 /\ c[1].rc = 0 /\ openshift_ip # <<>> /\ ClusterPolls = <<>>
    \* restart and readiness poll exactly when the patch reported a change
    /\ (\E i \in DOMAIN c : IsRestart(c[i].cmd)) => (changed /\ IsRestart(c[2].cmd))
    /\ (changed /\ Len(c) >= 2) => IsRestart(c[2].cmd)
    /\ pc = "os_up_restart" => (changed /\ Len(c) = 1)
    /\ ClusterPolls # <<>> =>
          /\ changed
          /\ Len(ClusterPolls) = 1
          /\ Len(c) >= 2 /\ IsRestart(c[2].cmd) /\ c[2].rc = 0
    /\ (changed /\ Len(c) >= 2 /\ c[2].rc = 0) => Len(ClusterPolls) = 1
    /\ pc = "openshift_wait" => Len(c) = 2
    \* login, after the poll has succeeded when there was one
    /\ Len(c) >= 2 + n =>
          /\ IsLogin(c[2 + n].cmd)
          /\ c[2 + n].cmd = <<"oc", "login", "-u", "system:admin", "https://">>
                               \o openshift_ip \o <<":8443">>
          /\ changed => ClusterPolls[1].result = "ok"
    /\ \A i \in DOMAIN c : IsLogin(c[i].cmd) => i = 2 + n
    /\ pc = "os_up_login" => Len(c) = 1 + n
    \* the grant, after login has succeeded
    /\ Len(c) >= 3 + n => (IsGrant(c[3 + n].cmd) /\ c[2 + n].rc = 0)
    /\ \A i \in DOMAIN c : IsGrant(c[i].cmd) => i = 3 + n
    /\ pc = "os_up_admin" => Len(c) = 2 + n
    /\ func = "os-up" =>
          /\ Len(calls) <= 3 + n
          /\ calls = c
          /\ pc = "done" <=> (Len(c) = 3 + n /\ c[3 + n].rc = 0)
    \* no address: nothing was patched, no login
    /\ NoAddress =>
          /\ Len(c) = 1 /\ c[1].rc = 0
          /\ ~changed /\ ~wrote /\ openshift_ip = <<>>
          /\ polls = <<>>

\* C11: every state of a run of os-up or of up keeps this order, and the
\* cluster-start step, which is where os_up raises for want of an address,
\* leaves the config file alone.
C11_OsUpOrder ==
    /\ [](func \in {"os-up", "up"} => C11_Order)
    /\ [][pc = "os_up" => (config' = config /\ wrote' = wrote /\ changed' = changed)]_vars

\* os-up has completed after a restart and a successful readiness poll
C11_Witness ==
    /\ func = "os-up"
    /\ pc = "done"
    /\ changed
    /\ Len(calls) = 4
    /\ Len(ClusterPolls) = 1
    /\ ClusterPolls[1].result = "ok"

\* os_up has raised because the output carried no address
C11_WitnessNoAddress ==
    /\ func = "os-up"
    /\ NoAddress

(***************************************************************************)
(* C12.  down and cleanup each issue exactly two external commands,        *)
(* compose-down followed by cluster-down, and cluster-down is issued       *)
(* whatever the exit status of compose-down; compose-down carries -v when  *)
(* and only when the operation is cleanup.                                 *)
(***************************************************************************)
C12_DownCleanup ==
    func \in {"down", "cleanup"} =>
        /\ pc \in {"down", "os_down", "done"}
        /\ polls = <<>> /\ polled = <<>>
        /\ Len(calls) = (CASE pc = "down" -> 0 [] pc = "os_down" -> 1 [] pc = "done" -> 2)
        /\ Len(calls) >= 1 =>
              /\ SubSeq(calls[1].cmd, 1, 2) = <<"docker-compose", "down">>
              /\ (\E i \in DOMAIN calls[1].cmd : calls[1].cmd[i] = "-v") <=> func = "cleanup"
              /\ Len(calls[1].cmd) = (IF func = "cleanup" THEN 3 ELSE 2)
        /\ Len(calls) >= 2 => calls[2].cmd = <<"oc", "cluster", "down">>

\* cleanup has issued cluster-down after compose-down had failed
C12_Witness ==
    /\ func = "cleanup"
    /\ pc = "done"
    /\ Len(calls) = 2
    /\ calls[1].rc # 0

(***************************************************************************)
(* C13.  status runs to completion without raising for every combination   *)
(* of failures of its external commands: it prints exactly one state line  *)
(* per service of SERVICES, in list order, with state 'not found' for each *)
(* service whose inspection fails; a failure of the cluster-status or of   *)
(* the hub-log command does not prevent the per-service lines.             *)
(***************************************************************************)
IsStateLine(l) ==
    /\ Len(l) >= 2
    /\ l[2] = ": "
    /\ \E i \in DOMAIN SERVICES : l[1] = SERVICES[i]

\* the per-service lines printed so far
StateLines == SelectSeq(stdout, IsStateLine)

C13_StatusLines ==
    func = "status" =>
        /\ pc \in {"status", "status_koji", "status_services", "done"}
        /\ exc = None
        /\ pc = "status" => calls = <<>>
        /\ pc = "status_koji" => Len(calls) = 1
        /\ pc = "status_services" => Len(calls) = 2 + idx /\ idx < 6
        /\ pc = "done" => Len(calls) = 8
        /\ Len(calls) >= 1 => calls[1].cmd = <<"oc", "cluster", "status">>
        /\ Len(calls) >= 2 => calls[2].cmd = <<"docker", "logs", "osbsbox_koji-hub_1">>
        /\ Len(StateLines) = (IF Len(calls) > 2 THEN Len(calls) - 2 ELSE 0)
        /\ \A i \in DOMAIN StateLines :
              LET e == calls[2 + i] IN
              /\ StateLines[i][1] = SERVICES[i]
              /\ e.cmd = <<"docker", "inspect", "--format='{{.State.Status}}'",
                           "osbsbox_" \o SERVICES[i] \o "_1">>
              /\ e.rc # 0 => StateLines[i] = <<SERVICES[i], ": ", "not found">>
              /\ e.rc = 0 => StateLines[i] = <<SERVICES[i], ": ">> \o e.lines[1]

\* C13: the lines are as above in every state of a run of status, and a run
\* of status that was started reaches its end.
C13_StatusCompletes ==
    /\ []C13_StatusLines
    /\ (func = "status" /\ pc = "status") ~> (func = "status" /\ pc = "done")

\* status has printed its six lines although the cluster-status command, the
\* hub-log command and some but not all of the inspections had failed
C13_Witness ==
    /\ func = "status"
    /\ pc = "done"
    /\ Len(StateLines) = 6
    /\ calls[1].rc # 0
    /\ calls[2].rc # 0
    /\ calls[3].rc # 0
    /\ calls[4].rc = 0
    /\ calls[8].rc # 0

(***************************************************************************)
(* C14.  State-flag poller: after every attempt that does not report       *)
(* 'true' and is followed by another attempt, the poller sleeps 1 time     *)
(* unit before the next inspection; no two inspections occur without a     *)
(* sleep between them.                                                     *)
(* The only sleep of the poller is in an except clause that no exception   *)
(* of _run reaches, and an inspection that prints another value is         *)
(* followed by the next one at once: this statement fails.                 *)
(***************************************************************************)
C14_SleepBetweenInspections ==
    Latest("container") =>
        \A i \in 1..(Len(polled) - 1) :
            polled[i].via = "_run" => polled[i + 1].via = "sleep"

(***************************************************************************)
(* C15.  _run raises a RuntimeError carrying the command and the exit      *)
(* status if and only if the command exits with a non-zero status and      *)
(* ignore_exitcode is false; in every other case it returns the captured   *)
(* output and does not raise.                                              *)
(***************************************************************************)
RECURSIVE DropBlankHead(_)
DropBlankHead(ls) ==
    IF ls # <<>> /\ Head(ls) = <<>> THEN DropBlankHead(Tail(ls)) ELSE ls

RECURSIVE DropBlankTail(_)
DropBlankTail(ls) ==
    IF ls # <<>> /\ Last(ls) = <<>>
    THEN DropBlankTail(SubSeq(ls, 1, Len(ls) - 1)) ELSE ls

RECURSIVE JoinWithNL(_)
JoinWithNL(ls) ==
    IF ls = <<>> THEN <<>>
    ELSE IF Len(ls) = 1 THEN ls[1]
    ELSE Head(ls) \o <<"\n">> \o JoinWithNL(Tail(ls))

\* the output of a command as text: its lines with a newline between them,
\* blank lines at either end left out
CapturedText(ls) == JoinWithNL(DropBlankTail(DropBlankHead(ls)))

\* what _run does with the command, flag, exit status and output of entry e
RunContract(e) ==
    \A sp \in BOOLEAN :
        LET r == _run(e.cmd, e.ignore, sp, [rc |-> e.rc, lines |-> e.lines]) IN
        /\ (r.exc # None) <=> (e.rc # 0 /\ ~e.ignore)
        /\ r.exc # None =>
              /\ r.exc.type = "RuntimeError"
              /\ Len(r.exc.args) = 1
              /\ IsSubstr(e.cmd, r.exc.args[1])
              /\ Last(r.exc.args[1]) = ToString(e.rc)
        /\ r.exc = None => r.ret = CapturedText(e.lines)

\* the run has ended with the error _run raises
CommandError ==
    /\ pc = "raised"
    /\ exc.type = "RuntimeError"
    /\ exc.args # <<>>
    /\ exc.args[1][1] = "Command"

C15_RunContract ==
    /\ \A i \in DOMAIN calls : calls[i].via = "_run" /\ RunContract(calls[i])
    /\ \A i \in DOMAIN polled : polled[i].via = "_run" => RunContract(polled[i])
    \* a handler that does not catch the error ends with it
    /\ func # "status" =>
          \A i \in DOMAIN calls :
              CheckedFailed(calls[i]) =>
                  /\ i = Len(calls)
                  /\ CommandError
                  /\ exc.args[1] = <<"Command">> \o calls[i].cmd
                                      \o <<"failed with exitcode", ToString(calls[i].rc)>>
    /\ \A i \in DOMAIN polled :
          CheckedFailed(polled[i]) => (i = Len(polled) /\ CommandError)
    \* and no run ends with it otherwise
    /\ CommandError =>
          IF polled # <<>> THEN CheckedFailed(Last(polled))
          ELSE calls # <<>> /\ CheckedFailed(Last(calls))

\* up has ended with the error of generate-certs after both teardown
\* commands had exited with a non-zero status, which _run ignored for them
C15_Witness ==
    /\ func = "up"
    /\ CommandError
    /\ Len(calls) = 3
    /\ calls[1].ignore /\ calls[1].rc # 0
    /\ calls[2].ignore /\ calls[2].rc # 0
    /\ ~calls[3].ignore /\ calls[3].rc # 0

(***************************************************************************)
(* C16.  In every state of a poll the attempt counter does not exceed the  *)
(* maximum: the state-flag poller never issues more than 10 inspections    *)
(* and the cluster poller never more than 90 status invocations in one     *)
(* call, whatever the invocations answer.                                  *)
(***************************************************************************)
C16_AttemptCeilings ==
    /\ Latest("container") =>
          /\ attempts <= 10
          /\ Len(Invocations("_run")) <= 10
          /\ Len(Invocations("check_call")) = 0
    /\ Latest("openshift") =>
          /\ attempts <= 90
          /\ Len(Invocations("check_call")) <= 90
          /\ Len(Invocations("_run")) = 0
    /\ pc = "container_wait" => attempts < 10
    /\ pc = "openshift_wait" => attempts < 90

\* the state-flag poller has succeeded with its 10th inspection
C16_Witness ==
    /\ Latest("container")
    /\ LatestPoll.result = "ok"
    /\ Len(Invocations("_run")) = 10
    /\ attempts = 10

====
